---- MODULE Spec2Model ----
(***************************************************************************)
(* Model of the checkpoint I/O module (src/checkpoint.py) and the legacy   *)
(* dict-to-container module (src/dic_to_h5.py).                            *)
(*                                                                         *)
(* The library is synchronous: every public function is one action that    *)
(* runs the whole call, recursion included, on a threaded "machine state"  *)
(* record st (files on disk, handle table, container-operation log,        *)
(* logger records, delegate calls, pending exception, return value).       *)
(*                                                                         *)
(* Python strings are sequences of one-character strings.  Python values   *)
(* are records of one shape, [kind, dtype, shape, data, items]; "data" is  *)
(* a sequence of atoms written as strings ("7", "1.5", "h").               *)
(***************************************************************************)
EXTENDS Integers, Sequences, FiniteSets, TLC

VARIABLES
    h5py_missing,   \* module flag set at import time
    treedict,       \* argument: the dict tree (sequence of [key, val] items)
    h5file,         \* argument: destination / source of the container calls
    ffile,          \* argument: destination / source of dump and load
    fmat,           \* argument: explicit format, or NoFmat for None
    exclude_names,  \* argument: list of substrings, or NoList for None
    create_dataset_args, \* argument: "None" or the name of an option set
    files,          \* disk: resource name -> set of container nodes
    content,        \* disk: resource name -> "hdf5", "json", "ini" or "empty"
    docs,           \* disk: resource name -> document held by a text file
    handles,        \* handle table: sequence of [file, kind, state, by]
    oplog,          \* container operations performed, in order
    logrecs,        \* records emitted through logger
    calls,          \* delegate functions entered, in order
    outcome,        \* function name -> [status, exc]
    selected,       \* function name -> format dump / load dispatched on
    ret,            \* value returned by the last read call
    family          \* which group of entry points this run exercises

vars == <<h5py_missing, treedict, h5file, ffile, fmat, exclude_names,
          create_dataset_args, files, content, docs, handles, oplog,
          logrecs, calls, outcome, selected, ret, family>>

(***************************************************************************)
(* Bounds                                                                  *)
(***************************************************************************)
MaxNodes == 3       \* keys in a dict tree / nodes in a container, all levels
MaxExclude == 2     \* length of an exclude_names list

(***************************************************************************)
(* Strings                                                                 *)
(***************************************************************************)
\* Characters in ASCII order; position gives the ordering used for names.
Alphabet == <<" ", ".", "/", "5", "H", "I", "J", "N", "O", "S", "U", "X", "Z",
              "a", "b", "c", "d", "f", "g", "h", "i", "j", "k", "m", "n",
              "o", "r", "s", "t", "u", "w", "x", "z">>

CharCode(c) == CHOOSE i \in 1..Len(Alphabet) : Alphabet[i] = c

\* str.lower() on one character of the alphabet
LowerChar(c) ==
    CASE c = "H" -> "h" [] c = "I" -> "i" [] c = "J" -> "j"
      [] c = "N" -> "n" [] c = "O" -> "o" [] c = "S" -> "s"
      [] c = "U" -> "u" [] c = "X" -> "x" [] c = "Z" -> "z"
      [] OTHER -> c

lower(s) == [i \in 1..Len(s) |-> LowerChar(s[i])]

\* s.endswith(suffix)
endswith(s, suffix) ==
    /\ Len(suffix) <= Len(s)
    /\ SubSeq(s, Len(s) - Len(suffix) + 1, Len(s)) = suffix

\* Python's  sub in s
Contains(s, sub) ==
    \E i \in 0..(Len(s) - Len(sub)) : SubSeq(s, i + 1, i + Len(sub)) = sub

\* s.rfind(c): 1-based index of the last occurrence, 0 when absent
rfind(s, c) ==
    IF \E i \in 1..Len(s) : s[i] = c
    THEN CHOOSE i \in 1..Len(s) : s[i] = c /\ \A j \in (i+1)..Len(s) : s[j] # c
    ELSE 0

\* os.path.splitext(p)[1]: the extension with its dot, "" when the only
\* dots are leading dots of the last path component
splitext_ext(p) ==
    LET sepIndex == rfind(p, "/")
        dotIndex == rfind(p, ".")
    IN IF dotIndex > sepIndex
          /\ \E k \in (sepIndex + 1)..(dotIndex - 1) : p[k] # "."
       THEN SubSeq(p, dotIndex, Len(p))
       ELSE <<>>

\* Lexicographic order on names (the container iterates children by name)
RECURSIVE NameLess(_, _)
NameLess(a, b) ==
    IF a = <<>> THEN b # <<>>
    ELSE IF b = <<>> THEN FALSE
    ELSE IF a[1] = b[1] THEN NameLess(Tail(a), Tail(b))
    ELSE CharCode(a[1]) < CharCode(b[1])

\* Split a path string on "/" and drop empty components: the way the
\* container backend resolves "/a/b", "//a/b" and "/a/b/" to one node.
RECURSIVE SplitPath(_, _, _)
SplitPath(s, cur, acc) ==
    IF s = <<>> THEN (IF cur = <<>> THEN acc ELSE Append(acc, cur))
    ELSE IF s[1] = "/"
         THEN SplitPath(Tail(s), <<>>, IF cur = <<>> THEN acc ELSE Append(acc, cur))
         ELSE SplitPath(Tail(s), Append(cur, s[1]), acc)

Normalize(pathstr) == SplitPath(pathstr, <<>>, <<>>)

(***************************************************************************)
(* Python values                                                           *)
(***************************************************************************)
V(kind, dtype, shape, data, items) ==
    [kind |-> kind, dtype |-> dtype, shape |-> shape, data |-> data, items |-> items]

NoneV       == V("None", "", <<>>, <<>>, <<>>)
DictV(its)  == V("dict", "", <<>>, <<>>, its)
IntV        == V("int", "", <<>>, <<"7">>, <<>>)
FloatV      == V("float", "", <<>>, <<"1.5">>, <<>>)
StrV        == V("str", "", <<>>, <<"h", "i">>, <<>>)
ListV       == V("list", "int", <<>>, <<"1", "2">>, <<>>)     \* [1, 2]
StrListV    == V("list", "str", <<>>, <<"p", "q">>, <<>>)     \* ["p", "q"]
NdarrayV    == V("ndarray", "int64", <<2>>, <<"3", "4">>, <<>>)
TensorV     == V("tensor", "float32", <<2>>, <<"5", "6">>, <<>>)

Item(k, v) == [key |-> k, val |-> v]

\* isinstance checks of the source
IsDict(v)       == v.kind = "dict"
IsStringType(v) == v.kind = "str"
IsInt(v)        == v.kind = "int"
IsNumpy(v)      == v.kind \in {"ndarray", "string_"}

\* numpy.string_(s)
numpy_string_(v) == V("string_", "S", <<>>, v.data, <<>>)

\* numpy.array(x) for the value kinds of the model
numpy_array(v) ==
    CASE v.kind = "int"    -> V("ndarray", "int64", <<>>, v.data, <<>>)
      [] v.kind = "float"  -> V("ndarray", "float64", <<>>, v.data, <<>>)
      [] v.kind = "list"   -> V("ndarray", IF v.dtype = "str" THEN "U" ELSE "int64",
                                <<Len(v.data)>>, v.data, <<>>)
      [] v.kind = "tensor" -> V("ndarray", v.dtype, v.shape, v.data, <<>>)
      [] v.kind = "str"    -> V("ndarray", "U", <<>>, v.data, <<>>)
      [] OTHER             -> V("ndarray", v.dtype, v.shape, v.data, <<>>)

\* x.cpu().numpy(): only tensors have the attribute
HasCpu(v) == v.kind = "tensor"
cpu_numpy(v) == V("ndarray", v.dtype, v.shape, v.data, <<>>)

\* torch.from_numpy(a): numeric dtypes only
TorchDtypes == {"int64", "float64", "float32"}
torch_from_numpy(a) == V("tensor", a.dtype, a.shape, a.data, <<>>)

(***************************************************************************)
(* Exceptions and the threaded machine state                               *)
(***************************************************************************)
Exc(type, msg) == [type |-> type, msg |-> msg]
NoExc == Exc("none", <<>>)
h5py_import_error == Exc("ImportError", <<>>)

Raise(st, e) == [st EXCEPT !.exc = e]
Failed(st)   == st.exc # NoExc

Op(name, file, path) == [op |-> name, file |-> file, path |-> path]

(***************************************************************************)
(* Container backend (h5py) primitives                                     *)
(***************************************************************************)
Node(path, kind, val, opts) == [path |-> path, kind |-> kind, val |-> val, opts |-> opts]

Prefixes(p) == {SubSeq(p, 1, n) : n \in 1..(Len(p) - 1)}

\* h5py.File(name, mode) / silx open(name): a new open handle
OpenHandle(st, file, kind, by, truncate) ==
    [st EXCEPT !.handles = Append(@, [file |-> file, kind |-> kind,
                                      state |-> "open", by |-> by]),
               !.files[file] = IF truncate THEN {} ELSE @,
               !.content[file] = IF truncate
                                 THEN (IF kind = "h5" THEN "hdf5" ELSE "empty")
                                 ELSE @,
               !.oplog = IF kind = "h5" THEN Append(@, Op("open", file, <<>>)) ELSE @]

\* handle.close()
CloseHandle(st, h) == [st EXCEPT !.handles[h].state = "closed"]

NodeExists(st, file, p) == p = <<>> \/ \E n \in st.files[file] : n.path = p

CanCreate(st, h, p) ==
    /\ st.handles[h].state = "open"
    /\ ~NodeExists(st, st.handles[h].file, p)
    /\ \A q \in Prefixes(p) :
          \A n \in st.files[st.handles[h].file] : n.path = q => n.kind = "group"

WithParents(st, file, p) ==
    {Node(q, "group", NoneV, "None") : q \in {r \in Prefixes(p) : ~NodeExists(st, file, r)}}

\* h5f.create_group(path)
create_group(st, h, pathstr) ==
    LET p == Normalize(pathstr)
        file == st.handles[h].file
    IN IF ~CanCreate(st, h, p) THEN Raise(st, Exc("ValueError", <<>>))
       ELSE [st EXCEPT !.files[file] = @ \cup WithParents(st, file, p)
                                         \cup {Node(p, "group", NoneV, "None")},
                       !.oplog = Append(@, Op("create_group", file, p))]

\* h5f.create_dataset(path, data=ds, **opts)
create_dataset(st, h, pathstr, ds, opts) ==
    LET p == Normalize(pathstr)
        file == st.handles[h].file
    IN IF ~CanCreate(st, h, p) THEN Raise(st, Exc("ValueError", <<>>))
       ELSE IF ds.dtype = "U" THEN Raise(st, Exc("TypeError", <<>>))
       ELSE [st EXCEPT !.files[file] = @ \cup WithParents(st, file, p)
                 \cup {Node(p, "dataset", V("ndarray", ds.dtype, ds.shape, ds.data, <<>>), opts)},
                       !.oplog = Append(@, Op("create_dataset", file, p))]

(***************************************************************************)
(* Arguments that are a path or an open object                             *)
(***************************************************************************)
\* kind "str": a path string (name); "File": an open container handle (id);
\* "stream": an open text stream with a name attribute (id, name);
\* "stream_noname": an open text stream without one (id).
Arg(kind, name, id) == [kind |-> kind, name |-> name, id |-> id]

IsH5File(a) == a.kind = "File"                          \* isinstance(a, h5py.File)
IsPathString(a) == a.kind = "str"                       \* isinstance(a, string_types)
HasWrite(a) == a.kind \in {"stream", "stream_noname"}   \* hasattr(a, "write")
HasRead(a)  == a.kind \in {"stream", "stream_noname"}   \* hasattr(a, "read")
HasName(a)  == a.kind = "stream"                        \* the name attribute exists

\* the resource an argument designates
ResourceOf(st, a) == IF a.kind = "str" THEN a.name ELSE st.handles[a.id].file

\* utils.is_file(obj): obj is a root container handle
is_file(a) == a.kind = "File"

\* utils.is_group(h5f[path])
is_group(st, h, pathstr) ==
    \E n \in st.files[st.handles[h].file] : n.path = Normalize(pathstr) /\ n.kind = "group"

\* utils.open(name): open a container for reading; fails on a non-container
h5open(st, a) ==
    IF a.kind # "str" \/ st.content[a.name] # "hdf5"
    THEN Raise(st, Exc("IOError", <<>>))
    ELSE OpenHandle(st, a.name, "h5", "load_checkpoint", FALSE)

(***************************************************************************)
(* checkpoint.py: leaf encoder and container write                         *)
(***************************************************************************)
Encoded(e, a) == [exc |-> e, array |-> a]

\* checkpoint._prepare_hdf5_dataset
prepare_hdf5_dataset(array_like) ==
    LET a1 == IF IsStringType(array_like) THEN numpy_string_(array_like) ELSE array_like
    IN IF ~IsInt(a1) /\ ~HasCpu(a1)
       THEN Encoded(Exc("AttributeError", <<"c", "p", "u">>), NoneV)
       ELSE LET a2 == IF ~IsInt(a1) THEN cpu_numpy(a1) ELSE a1
            IN Encoded(NoExc, IF ~IsNumpy(a2) THEN numpy_array(a2) ELSE a2)

\* variant of the close: the handle is closed whoever opened it
save_checkpoint_close_always(st, h5file_, h5f) == CloseHandle(st, h5f)

\* the close at the end of save_checkpoint
save_checkpoint_close(st, h5file_, h5f) ==
    IF IsPathString(h5file_) THEN CloseHandle(st, h5f) ELSE st

RECURSIVE save_checkpoint(_, _, _, _, _)
RECURSIVE save_checkpoint_loop(_, _, _, _, _, _)

\* the body of  for key in treedict  from item i on
save_checkpoint_loop(st, items, i, h5f, h5path, cda) ==
    IF Failed(st) \/ i > Len(items) THEN st
    ELSE LET key == items[i].key
             val == items[i].val
             st1 ==
               IF IsDict(val) /\ Len(val.items) > 0
               THEN save_checkpoint(st, val.items, Arg("File", <<>>, h5f),
                                    h5path \o key, cda)
               ELSE IF val = NoneV \/ (IsDict(val) /\ Len(val.items) = 0)
               THEN create_group(st, h5f, h5path \o key)
               ELSE LET enc == prepare_hdf5_dataset(val)
                    IN IF enc.exc # NoExc THEN Raise(st, enc.exc)
                       ELSE IF enc.array.shape = <<>> \/ cda = "None"
                       THEN create_dataset(st, h5f, h5path \o key, enc.array, "None")
                       ELSE create_dataset(st, h5f, h5path \o key, enc.array, cda)
         IN save_checkpoint_loop(st1, items, i + 1, h5f, h5path, cda)

\* checkpoint.save_checkpoint (mode is "w")
save_checkpoint(st, items, h5file_, h5path, cda) ==
    IF st.h5py_missing THEN Raise(st, h5py_import_error)
    ELSE LET st1 == IF ~IsH5File(h5file_)
                    THEN OpenHandle(st, ResourceOf(st, h5file_), "h5", "save_checkpoint", TRUE)
                    ELSE st
             h5f == IF ~IsH5File(h5file_) THEN Len(st1.handles) ELSE h5file_.id
             path == IF ~endswith(h5path, <<"/">>) THEN h5path \o <<"/">> ELSE h5path
             st2 == save_checkpoint_loop(st1, items, 1, h5f, path, cda)
         IN IF Failed(st2) THEN st2 ELSE save_checkpoint_close(st2, h5file_, h5f)

(***************************************************************************)
(* dic_to_h5.py: leaf encoder and container write                          *)
(***************************************************************************)
\* dic_to_h5._prepare_hdf5_dataset
legacy_prepare_hdf5_dataset(array_like) ==
    LET a1 == IF IsStringType(array_like) THEN numpy_string_(array_like) ELSE array_like
        array == IF ~IsNumpy(a1) THEN numpy_array(a1) ELSE a1
    IN IF array.kind # "string_" /\ array.dtype \in {"S", "U"}
       THEN Encoded(NoExc, [array EXCEPT !.dtype = "S"])
       ELSE Encoded(NoExc, array)

\* the close at the end of dicttoh5
dicttoh5_close(st, h5file_, h5f) ==
    IF IsPathString(h5file_) THEN CloseHandle(st, h5f) ELSE st

RECURSIVE dicttoh5(_, _, _, _, _)
RECURSIVE dicttoh5_loop(_, _, _, _, _, _)

dicttoh5_loop(st, items, i, h5f, h5path, cda) ==
    IF Failed(st) \/ i > Len(items) THEN st
    ELSE LET key == items[i].key
             val == items[i].val
             st1 ==
               IF IsDict(val) /\ Len(val.items) > 0
               THEN dicttoh5(st, val.items, Arg("File", <<>>, h5f), h5path \o key, cda)
               ELSE IF val = NoneV \/ (IsDict(val) /\ Len(val.items) = 0)
               THEN create_group(st, h5f, h5path \o key)
               ELSE LET enc == legacy_prepare_hdf5_dataset(val)
                    IN IF enc.array.shape = <<>> \/ cda = "None"
                       THEN create_dataset(st, h5f, h5path \o key, enc.array, "None")
                       ELSE create_dataset(st, h5f, h5path \o key, enc.array, cda)
         IN dicttoh5_loop(st1, items, i + 1, h5f, h5path, cda)

\* dic_to_h5.dicttoh5 (mode is "w")
dicttoh5(st, items, h5file_, h5path, cda) ==
    IF st.h5py_missing THEN Raise(st, h5py_import_error)
    ELSE LET st1 == IF ~IsH5File(h5file_)
                    THEN OpenHandle(st, ResourceOf(st, h5file_), "h5", "dicttoh5", TRUE)
                    ELSE st
             h5f == IF ~IsH5File(h5file_) THEN Len(st1.handles) ELSE h5file_.id
             path == IF ~endswith(h5path, <<"/">>) THEN h5path \o <<"/">> ELSE h5path
             st2 == dicttoh5_loop(st1, items, 1, h5f, path, cda)
         IN IF Failed(st2) THEN st2 ELSE dicttoh5_close(st2, h5file_, h5f)

(***************************************************************************)
(* checkpoint.py: container read                                           *)
(***************************************************************************)
NoList == [given |-> FALSE, list |-> <<>>]
SomeList(l) == [given |-> TRUE, list |-> l]

\* variant of the filter: the loop returns after its first entry
name_contains_first_entry_only(name, strlist) ==
    IF ~strlist.given THEN FALSE
    ELSE Len(strlist.list) > 0 /\ Contains(name, strlist.list[1])

\* checkpoint._name_contains_string_in_list
name_contains_string_in_list(name, strlist) ==
    IF ~strlist.given THEN FALSE
    ELSE \E k \in 1..Len(strlist.list) : Contains(name, strlist.list[k])

\* children of h5f[path], in the backend's (name) order
ChildNames(st, h, pathstr) ==
    LET p == Normalize(pathstr)
    IN {n.path[Len(p) + 1] : n \in {m \in st.files[st.handles[h].file] :
                                      Len(m.path) = Len(p) + 1 /\ SubSeq(m.path, 1, Len(p)) = p}}

RECURSIVE SortNames(_)
SortNames(S) ==
    IF S = {} THEN <<>>
    ELSE LET least == CHOOSE a \in S : \A b \in S \ {a} : NameLess(a, b)
         IN <<least>> \o SortNames(S \ {least})

h5_keys(st, h, pathstr) == SortNames(ChildNames(st, h, pathstr))

\* h5f[path][...]
h5_read(st, h, pathstr) ==
    (CHOOSE n \in st.files[st.handles[h].file] : n.path = Normalize(pathstr)).val

\* the close at the end of load_checkpoint
load_checkpoint_close(st, h5file_, h5f) ==
    IF ~is_file(h5file_) THEN CloseHandle(st, h5f) ELSE st

RECURSIVE load_checkpoint(_, _, _, _)
RECURSIVE load_checkpoint_loop(_, _, _, _, _, _, _)

\* the body of  for key in h5f[path]  from key i on; ddict is the mapping so far
load_checkpoint_loop(st, keys, i, h5f, path, excl, ddict) ==
    IF Failed(st) THEN st
    ELSE IF i > Len(keys) THEN [st EXCEPT !.ret = DictV(ddict)]
    ELSE LET key == keys[i]
             child == path \o <<"/">> \o key
         IN IF name_contains_string_in_list(key, excl)
            THEN load_checkpoint_loop(st, keys, i + 1, h5f, path, excl, ddict)
            ELSE IF is_group(st, h5f, child)
            THEN LET st1 == load_checkpoint(st, Arg("File", <<>>, h5f), child, excl)
                 IN load_checkpoint_loop(st1, keys, i + 1, h5f, path, excl,
                                         Append(ddict, Item(key, st1.ret)))
            ELSE LET a == h5_read(st, h5f, child)
                 IN IF a.dtype \notin TorchDtypes
                    THEN Raise(st, Exc("TypeError", <<>>))
                    ELSE load_checkpoint_loop(st, keys, i + 1, h5f, path, excl,
                                              Append(ddict, Item(key, torch_from_numpy(a))))

\* checkpoint.load_checkpoint
load_checkpoint(st, h5file_, path, excl) ==
    IF st.h5py_missing THEN Raise(st, h5py_import_error)
    ELSE LET st1 == IF ~is_file(h5file_) THEN h5open(st, h5file_) ELSE st
         IN IF Failed(st1) THEN st1
            ELSE LET h5f == IF ~is_file(h5file_) THEN Len(st1.handles) ELSE h5file_.id
                     st2 == load_checkpoint_loop(st1, h5_keys(st1, h5f, path), 1,
                                                 h5f, path, excl, <<>>)
                 IN IF Failed(st2) THEN st2
                    ELSE load_checkpoint_close(st2, h5file_, h5f)

(***************************************************************************)
(* checkpoint.py: JSON and INI writers                                     *)
(***************************************************************************)
Call(fn, arg) == [fn |-> fn, arg |-> arg]
Entered(st, fn, arg) == [st EXCEPT !.calls = Append(@, Call(fn, arg))]

\* values json.dump can encode
RECURSIVE JsonSerializable(_)
JsonSerializable(v) ==
    IF IsDict(v) THEN \A k \in 1..Len(v.items) : JsonSerializable(v.items[k].val)
    ELSE v.kind \in {"None", "int", "float", "str", "list"}

\* json.dump(ddict, jsonf, indent=indent)
json_dump(st, ddict, jsonf) ==
    LET file == st.handles[jsonf].file
    IN IF st.handles[jsonf].state # "open" THEN Raise(st, Exc("ValueError", <<>>))
       ELSE IF ~JsonSerializable(DictV(ddict)) THEN Raise(st, Exc("TypeError", <<>>))
       ELSE [st EXCEPT !.docs[file] = DictV(ddict), !.content[file] = "json"]

\* ConfigDict(initdict=ddict).write(inif)
ConfigDict_write(st, ddict, inif) ==
    LET file == st.handles[inif].file
    IN IF st.handles[inif].state # "open" THEN Raise(st, Exc("ValueError", <<>>))
       ELSE [st EXCEPT !.docs[file] = DictV(ddict), !.content[file] = "ini"]

\* checkpoint.dicttojson (mode is "w")
dicttojson(st, ddict, jsonfile, indent) ==
    LET st0 == Entered(st, "dicttojson", indent)
        st1 == IF ~HasWrite(jsonfile)
               THEN OpenHandle(st0, jsonfile.name, "text", "dicttojson", TRUE)
               ELSE st0
        jsonf == IF ~HasWrite(jsonfile) THEN Len(st1.handles) ELSE jsonfile.id
        st2 == json_dump(st1, ddict, jsonf)
    IN IF Failed(st2) THEN st2
       ELSE IF ~HasWrite(jsonfile) THEN CloseHandle(st2, jsonf) ELSE st2

\* checkpoint.dicttoini (mode is "w")
dicttoini(st, ddict, inifile) ==
    LET st0 == Entered(st, "dicttoini", "")
        st1 == IF ~HasWrite(inifile)
               THEN OpenHandle(st0, inifile.name, "text", "dicttoini", TRUE)
               ELSE st0
        inif == IF ~HasWrite(inifile) THEN Len(st1.handles) ELSE inifile.id
        st2 == ConfigDict_write(st1, ddict, inif)
    IN IF Failed(st2) THEN st2
       ELSE IF ~HasWrite(inifile) THEN CloseHandle(st2, inif) ELSE st2

(***************************************************************************)
(* checkpoint.py: dump and load                                            *)
(***************************************************************************)
NoFmat == [given |-> FALSE, s |-> <<>>]
Fmt(s) == [given |-> TRUE, s |-> s]

JSON == <<"j", "s", "o", "n">>
HDF5 == <<"h", "d", "f", "5">>
H5   == <<"h", "5">>
INI  == <<"i", "n", "i">>
CFG  == <<"c", "f", "g">>
UnknownFormat == <<"U", "n", "k", "n", "o", "w", "n", " ", "f", "o", "r", "m", "a", "t", " ">>

\* splitext(filename)[1][1:]
Extension(filename) ==
    LET e == splitext_ext(filename) IN IF e = <<>> THEN <<>> ELSE Tail(e)

\* variant of the selection: an explicit fmat is not lower-cased
dump_format_explicit_as_given(ffile_, fmat_) ==
    IF ~fmat_.given
    THEN IF ffile_.kind = "stream_noname" THEN NoFmat
         ELSE Fmt(lower(Extension(ffile_.name)))
    ELSE Fmt(fmat_.s)

\* dump, lines 260-264: the format dump dispatches on
\* (getattr(ffile, 'name', ffile) is the stream itself when it has no name,
\* and os.path.splitext rejects it)
dump_format(ffile_, fmat_) ==
    IF ~fmat_.given
    THEN IF ffile_.kind = "stream_noname" THEN NoFmat
         ELSE Fmt(lower(Extension(ffile_.name)))
    ELSE Fmt(lower(fmat_.s))

\* dump, lines 266-276
dump_dispatch(st, ddict, ffile_, fm) ==
    IF fm = JSON THEN dicttojson(st, ddict, ffile_, "2")
    ELSE IF fm \in {HDF5, H5}
    THEN IF st.h5py_missing
         THEN Raise([st EXCEPT !.logrecs = Append(@, Call("dump", "error"))],
                    h5py_import_error)
         ELSE save_checkpoint(Entered(st, "save_checkpoint", ""), ddict, ffile_,
                              <<"/">>, "None")
    ELSE IF fm \in {INI, CFG} THEN dicttoini(st, ddict, ffile_)
    ELSE Raise(st, Exc("IOError", UnknownFormat \o fm))

\* checkpoint.dump (mode is "w")
dump(st, ddict, ffile_, fmat_) ==
    LET sel == dump_format(ffile_, fmat_)
    IN IF ~sel.given THEN Raise(st, Exc("TypeError", <<>>))
       ELSE dump_dispatch([st EXCEPT !.fmt = sel], ddict, ffile_, sel.s)

\* json.load(f, object_pairs_hook=OrderedDict)
json_load(st, f) ==
    LET file == st.handles[f].file
        st0 == Entered(st, "json.load", "")
    IN IF st.handles[f].state # "open" \/ st.content[file] # "json"
       THEN Raise(st0, Exc("ValueError", <<>>))
       ELSE [st0 EXCEPT !.ret = st.docs[file]]

\* ConfigDict(filelist=[fname])
ConfigDict_read(st, fname) ==
    LET st0 == Entered(st, "ConfigDict", "")
    IN IF st.content[fname] # "ini" THEN Raise(st0, Exc("ParsingError", <<>>))
       ELSE [st0 EXCEPT !.ret = [st.docs[fname] EXCEPT !.kind = "ConfigDict"]]

\* load, lines 300-302: the format load dispatches on
load_format(fname, fmat_) ==
    IF ~fmat_.given THEN Fmt(lower(Extension(fname))) ELSE Fmt(lower(fmat_.s))

\* load, lines 304-314
load_dispatch(st, f, fname, fm) ==
    IF fm = JSON THEN json_load(st, f)
    ELSE IF fm \in {HDF5, H5}
    THEN IF st.h5py_missing
         THEN Raise([st EXCEPT !.logrecs = Append(@, Call("load", "error"))],
                    h5py_import_error)
         ELSE load_checkpoint(Entered(st, "load_checkpoint", ""),
                              Arg("str", fname, 0), <<"/">>, NoList)
    ELSE IF fm \in {INI, CFG} THEN ConfigDict_read(st, fname)
    ELSE Raise(st, Exc("IOError", UnknownFormat \o fm))

\* checkpoint.load
load(st, ffile_, fmat_) ==
    IF ~HasRead(ffile_)
    THEN LET st1 == OpenHandle(st, ffile_.name, "text", "load", FALSE)
             sel == load_format(ffile_.name, fmat_)
         IN load_dispatch([st1 EXCEPT !.fmt = sel], Len(st1.handles), ffile_.name, sel.s)
    ELSE IF ~HasName(ffile_)
    THEN Raise(st, Exc("AttributeError", <<"n", "a", "m", "e">>))
    ELSE LET sel == load_format(ffile_.name, fmat_)
         IN load_dispatch([st EXCEPT !.fmt = sel], ffile_.id, ffile_.name, sel.s)

\* A local handle that nothing references after a normal return may be
\* finalised by the interpreter; after a raise the traceback keeps the frame.
Finalise(st, by, collected) ==
    IF Failed(st) \/ ~collected THEN st
    ELSE [st EXCEPT !.handles =
            [i \in 1..Len(@) |-> IF @[i].by = by /\ @[i].kind = "text"
                                 THEN [@[i] EXCEPT !.state = "closed"] ELSE @[i]]]

(***************************************************************************)
(* Inputs                                                                  *)
(***************************************************************************)
\* Ordered dict trees with exactly n keys over all levels, keys unique within
\* a parent and drawn from K, leaves drawn from L.
RECURSIVE DictsOf(_, _, _, _)
RECURSIVE ValuesOf(_, _, _)
ValuesOf(m, K, L) ==
    IF m = 0 THEN L ELSE {DictV(d) : d \in DictsOf(m, K, K, L)}

DictsOf(n, avail, K, L) ==
    IF n = 0 THEN {<<>>}
    ELSE UNION { UNION { { <<Item(k, v)>> \o rest :
                             v \in ValuesOf(m, K, L),
                             rest \in DictsOf(n - 1 - m, avail \ {k}, K, L) }
                         : m \in 0..(n - 1) }
                 : k \in avail }

Trees(K, L) == UNION {DictsOf(n, K, K, L) : n \in 0..MaxNodes}

\* sequences over S of length at most n
RECURSIVE SeqsUpTo(_, _)
SeqsUpTo(S, n) ==
    IF n = 0 THEN {<<>>}
    ELSE SeqsUpTo(S, n - 1) \cup {Append(q, x) : q \in {r \in SeqsUpTo(S, n - 1) : Len(r) = n - 1}, x \in S}

WriteKeys   == {<<"a">>, <<"b">>}
WriteLeaves == {NoneV, DictV(<<>>), IntV, FloatV, StrV, ListV, StrListV, NdarrayV, TensorV}

Ckpt   == <<"c", ".", "h", "5">>
Legacy == <<"l", ".", "h", "5">>

\* container contents for the read path: datasets as stored arrays, None for
\* an empty group
ReadNames  == {<<"m", "c">>, <<"c">>, <<"c", "m">>}
ReadLeaves == {NoneV,
               V("ndarray", "int64", <<>>, <<"7">>, <<>>),
               V("ndarray", "float32", <<2>>, <<"5", "6">>, <<>>),
               V("ndarray", "S", <<>>, <<"h", "i">>, <<>>)}
ExcludeStrings == {<<"m">>, <<"m", "c">>, <<"x">>}
ExcludeLists == {NoList} \cup {SomeList(l) : l \in SeqsUpTo(ExcludeStrings, MaxExclude)}

\* the container that holds a given tree of groups and datasets
RECURSIVE ContainerOf(_, _)
ContainerOf(items, p) ==
    UNION { LET q == Append(p, items[i].key)
                v == items[i].val
            IN IF IsDict(v) THEN {Node(q, "group", NoneV, "None")} \cup ContainerOf(v.items, q)
               ELSE IF v = NoneV THEN {Node(q, "group", NoneV, "None")}
               ELSE {Node(q, "dataset", v, "None")}
            : i \in 1..Len(items) }

Containers == {ContainerOf(t, <<>>) : t \in Trees(ReadNames, ReadLeaves)}

\* dump / load arguments
Anon == <<"m", "e", "m">>          \* the buffer behind a nameless stream
FacadeNames == { <<"o", ".", "j", "s", "o", "n">>, <<"o", ".", "H", "5">>,
                 <<"o", ".", "h", "d", "f", "5">>, <<"o", ".", "i", "n", "i">>,
                 <<"o", ".", "c", "f", "g">>, <<"o", ".", "x", "z">>,
                 <<".", "j", "s", "o", "n">>, <<"a", ".", "h", "5", "/", "o">> }
FacadeArgs == {Arg("str", n, 0) : n \in FacadeNames}
              \cup {Arg("stream", n, 1) : n \in FacadeNames}
              \cup {Arg("stream_noname", <<>>, 1)}
FacadeFmats == {NoFmat, Fmt(JSON), Fmt(<<"J", "S", "O", "N">>), Fmt(H5), Fmt(HDF5),
                Fmt(INI), Fmt(CFG), Fmt(<<"x", "z">>), Fmt(<<"X", "Z">>)}
FacadeTrees == { <<Item(<<"a">>, IntV)>>,
                 <<Item(<<"a">>, TensorV)>>,
                 <<Item(<<"a">>, DictV(<<Item(<<"b">>, FloatV)>>)), Item(<<"b">>, NoneV)>> }
FacadeDoc == DictV(<<Item(<<"k">>, IntV)>>)
FacadeContainer == {Node(<< <<"k">> >>, "dataset", V("ndarray", "int64", <<>>, <<"7">>, <<>>), "None")}

Fns == {"save_checkpoint", "dicttoh5", "load_checkpoint", "dump", "load",
        "dicttojson", "dicttoini"}
Pending == [status |-> "pending", exc |-> NoExc]

CallerHandle(file, kind) == [file |-> file, kind |-> kind, state |-> "open", by |-> "caller"]

(***************************************************************************)
(* Initial states                                                          *)
(***************************************************************************)
InitCommon ==
    /\ oplog = <<>> /\ logrecs = <<>> /\ calls = <<>>
    /\ outcome = [f \in Fns |-> Pending]
    /\ selected = [f \in {"dump", "load"} |-> NoFmat]
    /\ ret = NoneV

\* save_checkpoint / dicttoh5 on a dict tree, then load_checkpoint of the result
InitWrite ==
    /\ family = "write"
    /\ h5py_missing \in BOOLEAN
    /\ treedict \in Trees(WriteKeys, WriteLeaves)
    /\ h5file \in {Arg("str", Ckpt, 0), Arg("File", <<>>, 1)}
    /\ create_dataset_args \in {"None", "gzip"}
    /\ ffile = Arg("str", Ckpt, 0) /\ fmat = NoFmat /\ exclude_names = NoList
    /\ files = [r \in {Ckpt, Legacy} |-> {}]
    /\ content = [r \in {Ckpt, Legacy} |-> IF h5file.kind = "File" THEN "hdf5" ELSE "empty"]
    /\ docs = [r \in {Ckpt, Legacy} |-> NoneV]
    /\ handles = IF h5file.kind = "File"
                 THEN <<CallerHandle(Ckpt, "h5"), CallerHandle(Legacy, "h5")>>
                 ELSE <<>>
    /\ InitCommon

\* load_checkpoint on a container
InitRead ==
    /\ family = "read"
    /\ h5py_missing \in BOOLEAN
    /\ treedict = <<>>
    /\ h5file \in {Arg("str", Ckpt, 0), Arg("File", <<>>, 1)}
    /\ create_dataset_args = "None"
    /\ ffile = Arg("str", Ckpt, 0) /\ fmat = NoFmat
    /\ exclude_names \in ExcludeLists
    /\ files \in {[r \in {Ckpt} |-> c] : c \in Containers}
    /\ content = [r \in {Ckpt} |-> "hdf5"]
    /\ docs = [r \in {Ckpt} |-> NoneV]
    /\ handles = IF h5file.kind = "File" THEN <<CallerHandle(Ckpt, "h5")>> ELSE <<>>
    /\ InitCommon

\* dump / load / dicttojson / dicttoini on a path or a stream
InitFacade ==
    /\ family = "facade"
    /\ h5py_missing \in BOOLEAN
    /\ treedict \in FacadeTrees
    /\ ffile \in FacadeArgs
    /\ fmat \in FacadeFmats
    /\ h5file = ffile /\ create_dataset_args = "None" /\ exclude_names = NoList
    /\ \E kind \in {"json", "hdf5", "ini"} :
         LET res == IF ffile.kind = "stream_noname" THEN Anon ELSE ffile.name
         IN /\ content = [r \in {res} |-> kind]
            /\ files = [r \in {res} |-> IF kind = "hdf5" THEN FacadeContainer ELSE {}]
            /\ docs = [r \in {res} |-> IF kind = "hdf5" THEN NoneV ELSE FacadeDoc]
            /\ handles = IF ffile.kind = "str" THEN <<>> ELSE <<CallerHandle(res, "text")>>
    /\ InitCommon

(***************************************************************************)
(* Actions: one per public function                                        *)
(***************************************************************************)
Pack == [h5py_missing |-> h5py_missing, files |-> files, content |-> content,
         docs |-> docs, handles |-> handles, oplog |-> oplog, logrecs |-> logrecs,
         calls |-> calls, exc |-> NoExc, ret |-> ret, fmt |-> NoFmat]

Done(st) == [status |-> IF Failed(st) THEN "raised" ELSE "returned", exc |-> st.exc]

Commit(st, fn) ==
    /\ files' = st.files /\ content' = st.content /\ docs' = st.docs
    /\ handles' = st.handles /\ oplog' = st.oplog /\ logrecs' = st.logrecs
    /\ calls' = st.calls /\ ret' = st.ret
    /\ outcome' = [outcome EXCEPT ![fn] = Done(st)]
    /\ selected' = IF fn \in {"dump", "load"} THEN [selected EXCEPT ![fn] = st.fmt]
                   ELSE selected
    /\ UNCHANGED <<h5py_missing, treedict, h5file, ffile, fmat, exclude_names,
                   create_dataset_args, family>>

IsPending(fn) == outcome[fn].status = "pending"

\* the destination dicttoh5 gets: the same kind of argument, its own file
LegacyDest == IF h5file.kind = "str" THEN Arg("str", Legacy, 0) ELSE Arg("File", <<>>, 2)

SaveCheckpoint ==
    /\ family = "write" /\ IsPending("save_checkpoint")
    /\ Commit(save_checkpoint(Pack, treedict, h5file, <<"/">>, create_dataset_args),
              "save_checkpoint")

DictToH5 ==
    /\ family = "write" /\ IsPending("dicttoh5")
    /\ Commit(dicttoh5(Pack, treedict, LegacyDest, <<"/">>, create_dataset_args),
              "dicttoh5")

\* no handle other than the caller's is open on the file
NotHeldOpen(file) ==
    \A i \in 1..Len(handles) :
        handles[i].file = file /\ handles[i].by # "caller" => handles[i].state = "closed"

LoadCheckpoint ==
    /\ family \in {"write", "read"} /\ IsPending("load_checkpoint")
    /\ family = "write" => ~IsPending("save_checkpoint") /\ NotHeldOpen(Ckpt)
    /\ Commit(load_checkpoint(Pack, h5file, <<"/">>, exclude_names), "load_checkpoint")

DictToJson ==
    /\ family = "facade" /\ \A f \in Fns : IsPending(f)
    /\ \E indent \in {"None", "2"} :
         Commit(dicttojson(Pack, treedict, ffile, indent), "dicttojson")

DictToIni ==
    /\ family = "facade" /\ \A f \in Fns : IsPending(f)
    /\ Commit(dicttoini(Pack, treedict, ffile), "dicttoini")

Dump ==
    /\ family = "facade" /\ IsPending("dump")
    /\ IsPending("dicttojson") /\ IsPending("dicttoini")
    /\ Commit(dump(Pack, treedict, ffile, fmat), "dump")

Load ==
    /\ family = "facade" /\ IsPending("load")
    /\ IsPending("dicttojson") /\ IsPending("dicttoini")
    /\ \E collected \in BOOLEAN :
         Commit(Finalise(load(Pack, ffile, fmat), "load", collected), "load")

NextWrite  == SaveCheckpoint \/ DictToH5 \/ LoadCheckpoint
NextRead   == LoadCheckpoint
NextFacade == Dump \/ Load \/ DictToJson \/ DictToIni

SpecWrite  == InitWrite /\ [][NextWrite]_vars
SpecRead   == InitRead /\ [][NextRead]_vars
SpecFacade == InitFacade /\ [][NextFacade]_vars

\* save_checkpoint, dicttoh5, load_checkpoint and the stream writers together
NextHandles == NextWrite \/ NextFacade
SpecHandles == (InitWrite \/ InitFacade) /\ [][NextHandles]_vars

(***************************************************************************)
(* Vocabulary of the properties                                            *)
(***************************************************************************)
Finished(fn) == outcome[fn].status # "pending"
Returned(fn) == outcome[fn].status = "returned"
Raised(fn)   == outcome[fn].status = "raised"

KeysOf(items) == {items[i].key : i \in 1..Len(items)}
Get(items, k) == (CHOOSE i \in 1..Len(items) : items[i].key = k)
ValueAt(items, k) == items[Get(items, k)].val

\* every leaf of the tree is one of the given leaves, sub-mappings are non-empty
RECURSIVE LeavesAmong(_, _)
LeavesAmong(items, leaves) ==
    \A i \in 1..Len(items) :
        IF IsDict(items[i].val)
        THEN Len(items[i].val.items) > 0 /\ LeavesAmong(items[i].val.items, leaves)
        ELSE items[i].val \in leaves

Max(S) == CHOOSE x \in S : \A y \in S : y <= x

\* nesting depth of a tree: 0 for the empty mapping, 1 for a flat one
RECURSIVE Depth(_)
Depth(items) ==
    IF items = <<>> THEN 0
    ELSE 1 + Max({0} \cup {Depth(items[i].val.items) :
                             i \in {j \in 1..Len(items) : IsDict(items[j].val)}})

\* the array form of a leaf, and of a tensor read back
ArrayForm(v) ==
    IF v.kind = "str" THEN V("ndarray", "S", <<>>, v.data, <<>>)
    ELSE IF v.kind = "ndarray" THEN v
    ELSE numpy_array(v)

\* loaded (a returned mapping) has the keys and nesting of orig, leaf by leaf
RECURSIVE SameTree(_, _)
SameTree(loaded, orig) ==
    /\ KeysOf(loaded) = KeysOf(orig)
    /\ Len(loaded) = Len(orig)
    /\ \A k \in KeysOf(orig) :
         LET l == ValueAt(loaded, k)
             o == ValueAt(orig, k)
         IN IF IsDict(o) THEN IsDict(l) /\ SameTree(l.items, o.items)
            ELSE l.kind = "tensor" /\ ArrayForm(l) = ArrayForm(o)

\* paths of the keys whose value is None or an empty mapping
RECURSIVE EmptyPaths(_, _)
EmptyPaths(items, p) ==
    UNION { LET v == items[i].val
                q == Append(p, items[i].key)
            IN IF v = NoneV \/ v = DictV(<<>>) THEN {q}
               ELSE IF IsDict(v) THEN EmptyPaths(v.items, q)
               ELSE {}
            : i \in 1..Len(items) }

\* the value a returned mapping holds at a path of keys
RECURSIVE Lookup(_, _)
Lookup(v, p) ==
    IF p = <<>> THEN v
    ELSE IF IsDict(v) /\ p[1] \in KeysOf(v.items)
    THEN Lookup(ValueAt(v.items, p[1]), Tail(p))
    ELSE NoneV

Writers == SelectSeq(calls, LAMBDA c : c.fn \in {"dicttojson", "save_checkpoint", "dicttoini"})

OwnClosed(fn) ==
    \A i \in 1..Len(handles) : handles[i].by = fn => handles[i].state = "closed"

(***************************************************************************)
(* C1: for every dict tree whose leaves are numeric scalars, plain strings *)
(* or numeric arrays, save_checkpoint followed by load_checkpoint on the   *)
(* same container succeeds and returns a mapping with the same keys and    *)
(* nesting, each leaf equal to the array form of the original leaf.        *)
(***************************************************************************)
C1_RoundTrip ==
    (/\ family = "write" /\ ~h5py_missing
     /\ LeavesAmong(treedict, {IntV, FloatV, StrV, NdarrayV, TensorV}))
    => /\ Finished("save_checkpoint") => Returned("save_checkpoint")
       /\ Finished("load_checkpoint") =>
             /\ Returned("load_checkpoint")
             /\ IsDict(ret) /\ SameTree(ret.items, treedict)

(***************************************************************************)
(* C2: dump uses the explicit fmat when one is given and otherwise the     *)
(* lower-cased filename extension, then calls exactly one writer           *)
(* (dicttojson with indent 2 for 'json', save_checkpoint for 'hdf5'/'h5',  *)
(* dicttoini for 'ini'/'cfg'); for any other format string it calls no     *)
(* writer and fails with IOError "Unknown format " + the format string.    *)
(***************************************************************************)
DumpApplies == family = "facade" /\ Finished("dump")
               /\ (fmat.given \/ ffile.kind # "stream_noname")

\* the claim as stated: the explicit fmat is used as given
C2_Original ==
    DumpApplies =>
      LET fs == IF fmat.given THEN fmat.s ELSE lower(Extension(ffile.name))
      IN /\ fs = JSON => Writers = <<Call("dicttojson", "2")>>
         /\ fs \in {HDF5, H5} => Writers = <<Call("save_checkpoint", "")>>
         /\ fs \in {INI, CFG} => Writers = <<Call("dicttoini", "")>>
         /\ fs \notin {JSON, HDF5, H5, INI, CFG} =>
               /\ Writers = <<>>
               /\ outcome["dump"] = [status |-> "raised",
                                     exc |-> Exc("IOError", UnknownFormat \o fs)]

\* C2 as amended: the explicit fmat is lower-cased too, and with the
\* container backend missing 'hdf5'/'h5' calls no writer and raises the
\* import error
C2_Dispatch ==
    DumpApplies =>
      LET fs == lower(IF fmat.given THEN fmat.s ELSE Extension(ffile.name))
      IN /\ fs = JSON => Writers = <<Call("dicttojson", "2")>>
         /\ fs \in {HDF5, H5} =>
               IF h5py_missing
               THEN /\ Writers = <<>>
                    /\ outcome["dump"] = [status |-> "raised", exc |-> h5py_import_error]
               ELSE Writers = <<Call("save_checkpoint", "")>>
         /\ fs \in {INI, CFG} => Writers = <<Call("dicttoini", "")>>
         /\ fs \notin {JSON, HDF5, H5, INI, CFG} =>
               /\ Writers = <<>>
               /\ outcome["dump"] = [status |-> "raised",
                                     exc |-> Exc("IOError", UnknownFormat \o fs)]

\* dump has dispatched an upper-case explicit fmat to the JSON writer
C2_Witness ==
    /\ DumpApplies /\ fmat = Fmt(<<"J", "S", "O", "N">>)
    /\ Writers = <<Call("dicttojson", "2")>>

(***************************************************************************)
(* C3: when save_checkpoint, dicttoh5, load_checkpoint, dicttojson or      *)
(* dicttoini is given a path, the handle the call opens is closed by the   *)
(* time the call exits, on normal return and on a propagated failure.      *)
(***************************************************************************)
C3_ClosedOnEveryExit ==
    /\ \A fn \in {"save_checkpoint", "dicttoh5", "load_checkpoint"} :
          family = "write" /\ Finished(fn) /\ h5file.kind = "str" => OwnClosed(fn)
    /\ \A fn \in {"dicttojson", "dicttoini"} :
          family = "facade" /\ Finished(fn) /\ ffile.kind = "str" => OwnClosed(fn)

(***************************************************************************)
(* C4: a destination or source passed in already open (container handle    *)
(* or writable stream) is still open when the call exits, for every dict   *)
(* tree and at every recursion depth.                                      *)
(***************************************************************************)
C4_CallerHandleStaysOpen ==
    \A i \in 1..Len(handles) : handles[i].by = "caller" => handles[i].state = "open"

\* save_checkpoint and load_checkpoint have recursed two levels deep on a
\* handle the caller opened
C4_Witness ==
    /\ family = "write" /\ h5file.kind = "File" /\ Depth(treedict) >= 3
    /\ Returned("save_checkpoint") /\ Returned("load_checkpoint") /\ Returned("dicttoh5")
    /\ handles[1].state = "open"

(***************************************************************************)
(* C5: when load is given a path, every file handle opened during the call *)
(* (its own text handle and any handle opened by load_checkpoint) is       *)
(* closed when load exits, for json, hdf5/h5, ini/cfg and unknown formats. *)
(***************************************************************************)
C5_LoadClosesHandles ==
    family = "facade" /\ Finished("load") /\ ffile.kind = "str"
    => OwnClosed("load") /\ OwnClosed("load_checkpoint")

(***************************************************************************)
(* C6: with the container backend unavailable, save_checkpoint,            *)
(* load_checkpoint, dicttoh5, dump with format hdf5/h5 and load with       *)
(* format hdf5/h5 each fail with the original import error and perform no  *)
(* container operation; dump and load also emit an error log record.       *)
(***************************************************************************)
\* the format the arguments ask for: explicit fmat, else the extension
RequestsHdf5 ==
    IF fmat.given THEN lower(fmat.s) \in {HDF5, H5}
    ELSE ffile.kind # "stream_noname" /\ lower(Extension(ffile.name)) \in {HDF5, H5}

FailedOnImport(fn) == outcome[fn] = [status |-> "raised", exc |-> h5py_import_error]

C6_MissingBackend ==
    h5py_missing =>
      /\ oplog = <<>>
      /\ \A fn \in {"save_checkpoint", "load_checkpoint", "dicttoh5"} :
            Finished(fn) => FailedOnImport(fn)
      /\ \A fn \in {"dump", "load"} :
            Finished(fn) /\ RequestsHdf5 =>
               /\ FailedOnImport(fn)
               /\ \E k \in 1..Len(logrecs) : logrecs[k] = Call(fn, "error")

(***************************************************************************)
(* C7: for every source or destination (path, named stream, nameless       *)
(* stream) and every fmat, load selects the same format as dump selects    *)
(* for the same arguments; a nameless readable stream with an explicit     *)
(* fmat of 'json' is parsed as JSON.                                       *)
(***************************************************************************)
C7_LoadSelectsLikeDump ==
    family = "facade" =>
      /\ Finished("dump") /\ Finished("load") => selected["load"] = selected["dump"]
      /\ Finished("load") /\ ffile.kind = "stream_noname" /\ fmat = Fmt(JSON)
            => \E k \in 1..Len(calls) : calls[k].fn = "json.load"

(***************************************************************************)
(* C8: for every dict tree whose leaves are all numeric (integers, floats, *)
(* lists of numbers, numeric arrays), dicttoh5 and save_checkpoint called  *)
(* with the same arguments both succeed and create the same groups and     *)
(* datasets with the same contents at the same paths.                      *)
(***************************************************************************)
C8_LegacyEquivalence ==
    (/\ family = "write" /\ ~h5py_missing
     /\ LeavesAmong(treedict, {IntV, FloatV, ListV, NdarrayV})
     /\ Finished("save_checkpoint") /\ Finished("dicttoh5"))
    => /\ Returned("save_checkpoint") /\ Returned("dicttoh5")
       /\ files[Ckpt] = files[Legacy]

(***************************************************************************)
(* C9: the mapping returned by load_checkpoint contains, at every nesting  *)
(* level, exactly the children whose name contains none of the listed      *)
(* substrings; an excluded group is omitted with its whole subtree, and    *)
(* with no list given nothing is omitted.                                  *)
(***************************************************************************)
Listed(name) ==
    /\ exclude_names.given
    /\ \E k \in 1..Len(exclude_names.list) : Contains(name, exclude_names.list[k])

NodesBelow(p) ==
    {n \in files[Ckpt] : Len(n.path) = Len(p) + 1 /\ SubSeq(n.path, 1, Len(p)) = p}

RECURSIVE ExactlyUnlisted(_, _)
ExactlyUnlisted(v, p) ==
    /\ IsDict(v)
    /\ Len(v.items) = Cardinality(KeysOf(v.items))
    /\ KeysOf(v.items) = {n.path[Len(p) + 1] : n \in {m \in NodesBelow(p) : ~Listed(m.path[Len(p) + 1])}}
    /\ \A n \in NodesBelow(p) :
          LET name == n.path[Len(p) + 1]
          IN ~Listed(name) =>
               IF n.kind = "group" THEN ExactlyUnlisted(ValueAt(v.items, name), n.path)
               ELSE ValueAt(v.items, name) = torch_from_numpy(n.val)

C9_ExcludeNames ==
    family = "read" /\ Returned("load_checkpoint") => ExactlyUnlisted(ret, <<>>)

\* a listed group with a child was skipped, subtree and all, while an
\* unlisted sibling was kept
C9_Witness ==
    /\ family = "read" /\ Returned("load_checkpoint") /\ exclude_names.given
    /\ \E n \in NodesBelow(<<>>) :
          Listed(n.path[1]) /\ n.kind = "group" /\ NodesBelow(n.path) # {}
    /\ \E n \in NodesBelow(<<>>) : ~Listed(n.path[1]) /\ n.path[1] \in KeysOf(ret.items)

(***************************************************************************)
(* C10: for every key, at any nesting level, whose value is None or an     *)
(* empty mapping, save_checkpoint creates exactly one empty group at that  *)
(* key's path and no dataset, and load_checkpoint reads that key back as   *)
(* an empty mapping.                                                       *)
(***************************************************************************)
C10_EmptyGroups ==
    family = "write" /\ ~h5py_missing /\ Finished("save_checkpoint") =>
      \A p \in EmptyPaths(treedict, <<>>) :
         /\ Node(p, "group", NoneV, "None") \in files[Ckpt]
         /\ \A n \in files[Ckpt] : n.path = p => n.kind = "group"
         /\ \A n \in files[Ckpt] : Len(n.path) > Len(p) => SubSeq(n.path, 1, Len(p)) # p
         /\ Cardinality({k \in 1..Len(oplog) : oplog[k] = Op("create_group", Ckpt, p)}) = 1
         /\ Finished("load_checkpoint") =>
               Returned("load_checkpoint") /\ Lookup(ret, p) = DictV(<<>>)

====
